---- MODULE Spec2Model ----
(***************************************************************************)
(* Gold Assistant API (src/main.py): the response cache, the response      *)
(* decision engine generate_ai_response and the /chat endpoint.            *)
(*                                                                         *)
(* Representation.  A Python str is a sequence of chunks.  Messages, user  *)
(* ids and generative texts are sequences of one-character chunks, so that *)
(* lower(), strip(), len(), slicing, startswith() and the substring test   *)
(* `in` are computed on them as Python computes them.  The static reply    *)
(* templates are one opaque chunk each: the code never inspects them.      *)
(* Money is an integer number of mills (1/1000 of a dollar); percentages   *)
(* are in mills of a percent; time.time() is an integer number of seconds. *)
(*                                                                         *)
(* Scheduling.  The endpoints are `async def` coroutines that never await: *)
(* the event loop runs each handler to completion before it starts the     *)
(* next one, so a handler is one atomic action and the clock advances      *)
(* between handlers.                                                       *)
(***************************************************************************)
EXTENDS Integers, Sequences, FiniteSets, TLC

VARIABLES
    response_cache,   \* main.py:89, the dict  hash -> {response, timestamp}
    now,              \* the value time.time() returns
    model,            \* main.py:34-57, TRUE iff the Gemini model was configured
    last,             \* observation of the last handled request
    previous,         \* (message, user_id) -> observation of the last decide call
    handled,          \* number of requests handled so far
    pending           \* requests accepted, their handlers not yet run

vars == <<response_cache, now, model, last, previous, handled, pending>>

-----------------------------------------------------------------------------
(* Program constants *)

CACHE_DURATION == 300
MinMessageLen == 5
MinGenLen == 50
MaxGenLen == 1500
EchoPrefixLen == 20
MaxMessageLen == 1000
SecondsPerDay == 86400

(* Bounds of the model *)

MaxHandled == 3
MaxTime == 600

-----------------------------------------------------------------------------
(* Python str operations *)

Whitespace == {" ", "\t", "\n", "\r"}

UpperToLower ==
    [c \in {"A","B","C","D","E","F","G","H","I","J","K","L","M",
            "N","O","P","Q","R","S","T","U","V","W","X","Y","Z"} |->
        CASE c = "A" -> "a" [] c = "B" -> "b" [] c = "C" -> "c" [] c = "D" -> "d"
          [] c = "E" -> "e" [] c = "F" -> "f" [] c = "G" -> "g" [] c = "H" -> "h"
          [] c = "I" -> "i" [] c = "J" -> "j" [] c = "K" -> "k" [] c = "L" -> "l"
          [] c = "M" -> "m" [] c = "N" -> "n" [] c = "O" -> "o" [] c = "P" -> "p"
          [] c = "Q" -> "q" [] c = "R" -> "r" [] c = "S" -> "s" [] c = "T" -> "t"
          [] c = "U" -> "u" [] c = "V" -> "v" [] c = "W" -> "w" [] c = "X" -> "x"
          [] c = "Y" -> "y" [] c = "Z" -> "z"]

LowerChar(c) == IF c \in DOMAIN UpperToLower THEN UpperToLower[c] ELSE c

Lower(s) == [i \in 1..Len(s) |-> LowerChar(s[i])]

Strip(s) ==
    IF \A i \in 1..Len(s) : s[i] \in Whitespace
    THEN <<>>
    ELSE LET first == CHOOSE i \in 1..Len(s) :
                          s[i] \notin Whitespace /\ \A j \in 1..(i - 1) : s[j] \in Whitespace
             lastc == CHOOSE i \in 1..Len(s) :
                          s[i] \notin Whitespace /\ \A j \in (i + 1)..Len(s) : s[j] \in Whitespace
         IN  SubSeq(s, first, lastc)

Prefix(s, n) == SubSeq(s, 1, IF Len(s) < n THEN Len(s) ELSE n)

StartsWith(s, p) == Len(p) <= Len(s) /\ SubSeq(s, 1, Len(p)) = p

Contains(s, k) == \E i \in 1..(Len(s) - Len(k) + 1) : SubSeq(s, i, i + Len(k) - 1) = k

AnyKeyword(s, keywords) == \E k \in keywords : Contains(s, k)

\* len(s.split()): the number of maximal runs of non-whitespace characters
WordCount(s) ==
    Cardinality({i \in 1..Len(s) :
        s[i] \notin Whitespace /\ (i = 1 \/ s[i - 1] \in Whitespace)})

Rep(c, n) == [i \in 1..n |-> c]

\* Optional[str]
NoneStr == [is_none |-> TRUE, text |-> <<>>]
Some(t) == [is_none |-> FALSE, text |-> t]
Truthy(o) == ~o.is_none /\ o.text # <<>>

-----------------------------------------------------------------------------
(* Number formatting: the format specs :.2f and :+.2f *)

DigitChar == <<"0", "1", "2", "3", "4", "5", "6", "7", "8", "9">>

RECURSIVE Digits(_)
Digits(n) == IF n < 10 THEN <<DigitChar[n + 1]>>
             ELSE Digits(n \div 10) \o <<DigitChar[(n % 10) + 1]>>

Abs(x) == IF x < 0 THEN -x ELSE x

\* nearest integer to n / d, for n >= 0 and d > 0
RoundDiv(n, d) == (n + (d \div 2)) \div d

\* Format2f with the digits cut instead of rounded
Format2f_Truncated(x, plus) ==
    LET cents == Abs(x) \div 10
        sign  == IF x < 0 THEN <<"-">> ELSE IF plus THEN <<"+">> ELSE <<>>
    IN  sign \o Digits(cents \div 100) \o <<".">>
             \o <<DigitChar[((cents % 100) \div 10) + 1], DigitChar[(cents % 10) + 1]>>

\* x in mills, printed with two decimals; plus is the "+" flag
Format2f(x, plus) ==
    LET cents == RoundDiv(Abs(x), 10)
        sign  == IF x < 0 THEN <<"-">> ELSE IF plus THEN <<"+">> ELSE <<>>
    IN  sign \o Digits(cents \div 100) \o <<".">>
             \o <<DigitChar[((cents % 100) \div 10) + 1], DigitChar[(cents % 10) + 1]>>

-----------------------------------------------------------------------------
(* Keyword sets *)

PriceKeywords ==
    { <<"p", "r", "i", "c", "e">>,
      <<"c", "o", "s", "t">>,
      <<"c", "u", "r", "r", "e", "n", "t">>,
      <<"s", "p", "o", "t">>,
      <<"v", "a", "l", "u", "e">>,
      <<"h", "o", "w", " ", "m", "u", "c", "h">> }

InvestKeywords ==
    { <<"i", "n", "v", "e", "s", "t">>,
      <<"b", "u", "y">>,
      <<"p", "u", "r", "c", "h", "a", "s", "e">>,
      <<"i", "n", "v", "e", "s", "t", "m", "e", "n", "t">>,
      <<"s", "h", "o", "u", "l", "d", " ", "i">> }

PurityKeywords ==
    { <<"p", "u", "r", "i", "t", "y">>,
      <<"k", "a", "r", "a", "t">>,
      <<"q", "u", "a", "l", "i", "t", "y">>,
      <<"h", "a", "l", "l", "m", "a", "r", "k">> }

MarketKeywords ==
    { <<"f", "a", "c", "t", "o", "r", "s">>,
      <<"w", "h", "y">>,
      <<"m", "a", "r", "k", "e", "t">>,
      <<"t", "r", "e", "n", "d">>,
      <<"a", "n", "a", "l", "y", "s", "i", "s">> }

GreetingKeywords ==
    { <<"h", "e", "l", "l", "o">>,
      <<"h", "i">>,
      <<"h", "e", "y">>,
      <<"g", "r", "e", "e", "t", "i", "n", "g", "s">> }

HelpKeywords ==
    { <<"h", "e", "l", "p">>,
      <<"w", "h", "a", "t", " ", "c", "a", "n", " ", "y", "o", "u", " ", "d", "o">>,
      <<"o", "p", "t", "i", "o", "n", "s">> }

NewsKeywords ==
    { <<"n", "e", "w", "s">>,
      <<"l", "a", "t", "e", "s", "t">>,
      <<"r", "e", "c", "e", "n", "t">>,
      <<"t", "o", "d", "a", "y">> }

GratitudeWords ==
    { <<"t", "h", "a", "n", "k">>,
      <<"t", "h", "a", "n", "k", "s">> }

PraiseWords ==
    { <<"g", "o", "o", "d">>,
      <<"g", "r", "e", "a", "t">>,
      <<"e", "x", "c", "e", "l", "l", "e", "n", "t">> }

-----------------------------------------------------------------------------
(* Price Source Adapter *)

NoQuote == [source |-> "None"]

GramsPerOunce4 == 311035    \* 31.1035 in units of 1e-4
BasePrice == 2018450        \* 2018.45 in mills

\* Provider A (GoldAPI).  a.kind is "ok" for status 200 with a parsable body,
\* "status" for another status code, "exc" for any exception in the try block.
\* Provider B (CoinGecko) has these and "nogold": status 200 and a body
\* without the key "gold".
GoldApiQuote(a, t) ==
    [ current_price  |-> a.price,
      currency       |-> "USD",
      unit           |-> "oz",
      change_24h     |-> a.ch,
      change_percent |-> a.chp,
      high_24h       |-> a.high_price,
      low_24h        |-> a.low_price,
      last_updated   |-> t,
      source         |-> "goldapi_io" ]

\* Provider B (CoinGecko).  b.usd is the price per gram in cents, b.change the
\* 24h change in hundredths of a percent; p4 is price_per_oz in units of 1e-4.
CoinGeckoQuote(b, t) ==
    LET p4 == RoundDiv(b.usd * GramsPerOunce4, 100)
        sgn == IF b.change < 0 THEN -1 ELSE 1
    IN  [ current_price  |-> 10 * RoundDiv(p4, 100),
          currency       |-> "USD",
          unit           |-> "oz",
          change_24h     |-> sgn * 10 * RoundDiv(Abs(b.change) * (p4 \div 100), 10000),
          change_percent |-> 10 * b.change,
          high_24h       |-> 10 * RoundDiv(p4 * 101, 10000),
          low_24h        |-> 10 * RoundDiv(p4 * 99, 10000),
          last_updated   |-> t,
          source         |-> "coingecko" ]

\* The synthesized quote.  r.price is base_price * seasonal_factor *
\* (1 + volatility) in mills, r.change is random.uniform(-35, 35) in mills.
MockQuote(r, t) ==
    LET sgn == IF r.change < 0 THEN -1 ELSE 1
    IN  [ current_price  |-> 10 * RoundDiv(r.price, 10),
          currency       |-> "USD",
          unit           |-> "oz",
          change_24h     |-> sgn * 10 * RoundDiv(Abs(r.change), 10),
          change_percent |-> sgn * 10 * RoundDiv(Abs(r.change) * 100, r.price \div 100),
          high_24h       |-> 10 * RoundDiv(r.price + 20000, 10),
          low_24h        |-> 10 * RoundDiv(r.price - 20000, 10),
          last_updated   |-> t,
          source         |-> "enhanced_mock" ]

\* get_gold_price asking provider B first
get_gold_price_CoinGeckoFirst(a, b, r, t) ==
    IF b.kind = "ok" THEN CoinGeckoQuote(b, t)
    ELSE IF a.kind = "ok" THEN GoldApiQuote(a, t)
    ELSE MockQuote(r, t)

get_gold_price(a, b, r, t) ==
    IF a.kind = "ok" THEN GoldApiQuote(a, t)
    ELSE IF b.kind = "ok" THEN CoinGeckoQuote(b, t)
    ELSE MockQuote(r, t)

\* the requests.get calls that get_gold_price makes, in order: the one of
\* main.py:132 always, the one of main.py:160 unless the first try block returned
ProvidersCalled(a, b) ==
    IF a.kind = "ok" THEN <<"goldapi_io">> ELSE <<"goldapi_io", "coingecko">>

\* the range of base_price * uniform(0.95, 1.05) * (1 + uniform(-0.02, 0.02))
MockPriceRange == (((BasePrice \div 10) * 931) \div 100)..(((BasePrice \div 10) * 1071) \div 100)

-----------------------------------------------------------------------------
(* Search Source Adapter *)

\* s.key: NEWS_API_KEY is set; s.kind: "ok" (status 200), "status", "exc";
\* s.articles: the articles of the body
search_gold_info(s) ==
    IF s.key /\ s.kind = "ok" /\ s.articles # <<>> THEN s.articles ELSE <<>>

-----------------------------------------------------------------------------
(* Reply templates *)

FallbackPriceResponse == <<"[Gold Price Information: unable to fetch real-time prices]">>
InvestmentAdvice      == <<"[Gold Investment Guide]">>
PurityGuide           == <<"[Gold Purity Guide]">>
MarketAnalysis        == <<"[Gold Market Analysis]">>
GreetingResponse      == <<"[Welcome to Gold Assistant!]">>
HelpResponse          == <<"[How I Can Help You]">>
GratitudeReply        == <<"[You're welcome! Feel free to ask me anything else]">>
PraiseReply           == <<"[I'm glad you found that helpful!]">>
ShortReply            == <<"[I'd be happy to help with more specific questions]">>
GenericReply          == <<"[I understand you're asking about gold-related topics]">>
ApologyReply          == <<"[I apologize for the technical difficulty]">>

PriceMark  == "[Current Gold Price] $"
ChangeMark == "Change: $"

format_price_response(q, direction) ==
    <<PriceMark>> \o Format2f(q.current_price, FALSE)
        \o <<" per ", q.unit, " (", q.currency, ")", "24-Hour Performance: ", direction>>
        \o <<ChangeMark>> \o Format2f(q.change_24h, TRUE)
        \o <<" (">> \o Format2f(q.change_percent, TRUE) \o <<"%)">>
        \o <<"Range: $">> \o Format2f(q.low_24h, FALSE)
        \o <<" - $">> \o Format2f(q.high_24h, FALSE)
        \o <<"Market Status: ",
             IF q.change_24h > 0 THEN "Bullish trend"
             ELSE IF q.change_24h < -10000 THEN "Bearish trend"
             ELSE "Sideways movement">>
        \o <<"Updated: ">> \o Digits(q.last_updated % SecondsPerDay)

\* get_contextual_fallback testing the praise words first
get_contextual_fallback_PraiseFirst(user_message) ==
    LET user_lower == Lower(user_message)
    IN  IF AnyKeyword(user_lower, PraiseWords) THEN PraiseReply
        ELSE IF AnyKeyword(user_lower, GratitudeWords) THEN GratitudeReply
        ELSE IF WordCount(user_message) < 3 THEN ShortReply
        ELSE GenericReply

get_contextual_fallback(user_message) ==
    LET user_lower == Lower(user_message)
    IN  IF AnyKeyword(user_lower, GratitudeWords) THEN GratitudeReply
        ELSE IF AnyKeyword(user_lower, PraiseWords) THEN PraiseReply
        ELSE IF WordCount(user_message) < 3 THEN ShortReply
        ELSE GenericReply

-----------------------------------------------------------------------------
(* Response Cache *)

\* get_response_hash without lower()
get_response_hash_CaseSensitive(message, user_id) == Strip(message) \o <<"_">> \o user_id

\* The md5 digest is taken to be collision free: the key string stands for
\* its digest.
get_response_hash(message, user_id) == Strip(Lower(message)) \o <<"_">> \o user_id

\* CacheLookupValid with the entry expiring one second early
CacheLookupValid_Early(age) == age < CACHE_DURATION - 1

\* CacheLookupValid with an entry of exactly 300 seconds still valid
CacheLookupValid_Inclusive(age) == age <= CACHE_DURATION

\* main.py:103
CacheLookupValid(age) == age < CACHE_DURATION

\* is_cached_response that finds nothing
is_cached_response_NeverHit(cache, t, message, user_id) ==
    [result |-> NoneStr, cache |-> cache]

\* is_cached_response that deletes every expired entry it meets
is_cached_response_Purge(cache, t, message, user_id) ==
    LET h == get_response_hash(message, user_id)
        fresh == {k \in DOMAIN cache : CacheLookupValid(t - cache[k].timestamp)}
    IN  [ result |-> IF h \in fresh THEN Some(cache[h].response) ELSE NoneStr,
          cache  |-> [k \in fresh |-> cache[k]] ]

\* is_cached_response that renews the timestamp of the entry it finds
is_cached_response_Touch(cache, t, message, user_id) ==
    LET h == get_response_hash(message, user_id)
    IN  IF h \in DOMAIN cache
        THEN IF CacheLookupValid(t - cache[h].timestamp)
             THEN [result |-> Some(cache[h].response),
                   cache  |-> [cache EXCEPT ![h].timestamp = t]]
             ELSE [result |-> NoneStr,
                   cache  |-> [k \in (DOMAIN cache) \ {h} |-> cache[k]]]
        ELSE [result |-> NoneStr, cache |-> cache]

\* returns the Optional[str] result and the dict as the call leaves it
is_cached_response(cache, t, message, user_id) ==
    LET h == get_response_hash(message, user_id)
    IN  IF h \in DOMAIN cache
        THEN IF CacheLookupValid(t - cache[h].timestamp)
             THEN [result |-> Some(cache[h].response), cache |-> cache]
             ELSE [result |-> NoneStr,
                   cache  |-> [k \in (DOMAIN cache) \ {h} |-> cache[k]]]
        ELSE [result |-> NoneStr, cache |-> cache]

\* cache_response with the user id left out of the key
cache_response_NoUser(cache, t, message, user_id, response) ==
    LET h == get_response_hash(message, <<>>)
    IN  [k \in (DOMAIN cache) \cup {h} |->
            IF k = h THEN [response |-> response, timestamp |-> t] ELSE cache[k]]

cache_response(cache, t, message, user_id, response) ==
    LET h == get_response_hash(message, user_id)
    IN  [k \in (DOMAIN cache) \cup {h} |->
            IF k = h THEN [response |-> response, timestamp |-> t] ELSE cache[k]]

-----------------------------------------------------------------------------
(* Response Decision Engine *)

\* Classify with the investment branch tested before the price branch
Classify_InvestFirst(user_message_lower) ==
    IF AnyKeyword(user_message_lower, InvestKeywords) THEN "investment"
    ELSE IF AnyKeyword(user_message_lower, PriceKeywords) THEN "price"
    ELSE IF AnyKeyword(user_message_lower, PurityKeywords) THEN "purity"
    ELSE IF AnyKeyword(user_message_lower, MarketKeywords) THEN "market"
    ELSE IF AnyKeyword(user_message_lower, GreetingKeywords) THEN "greeting"
    ELSE IF AnyKeyword(user_message_lower, HelpKeywords) THEN "help"
    ELSE "none"

\* main.py:265-285: the if/elif chain over the keyword sets
Classify(user_message_lower) ==
    IF AnyKeyword(user_message_lower, PriceKeywords) THEN "price"
    ELSE IF AnyKeyword(user_message_lower, InvestKeywords) THEN "investment"
    ELSE IF AnyKeyword(user_message_lower, PurityKeywords) THEN "purity"
    ELSE IF AnyKeyword(user_message_lower, MarketKeywords) THEN "market"
    ELSE IF AnyKeyword(user_message_lower, GreetingKeywords) THEN "greeting"
    ELSE IF AnyKeyword(user_message_lower, HelpKeywords) THEN "help"
    ELSE "none"

\* the body of the branch taken; generated_response stays None without a match
RuleResponse(category, gold_price_data) ==
    CASE category = "price" ->
             IF gold_price_data # NoQuote
             THEN Some(format_price_response(gold_price_data,
                          IF gold_price_data.change_24h > 0 THEN "up" ELSE "down"))
             ELSE Some(FallbackPriceResponse)
      [] category = "investment" -> Some(InvestmentAdvice)
      [] category = "purity"     -> Some(PurityGuide)
      [] category = "market"     -> Some(MarketAnalysis)
      [] category = "greeting"   -> Some(GreetingResponse)
      [] category = "help"       -> Some(HelpResponse)
      [] OTHER                   -> NoneStr

\* GeminiAttempted with a message of exactly 5 characters let through
GeminiAttempted_AtLeast(generated_response, configured, user_message) ==
    ~Truthy(generated_response) /\ configured /\ Len(user_message) >= MinMessageLen

\* main.py:288
GeminiAttempted(generated_response, configured, user_message) ==
    ~Truthy(generated_response) /\ configured /\ Len(user_message) > MinMessageLen

\* ValidGeminiText with a text of exactly 1500 characters accepted
ValidGeminiText_Inclusive(text, user_message_lower) ==
    /\ text # <<>>
    /\ MinGenLen < Len(text)
    /\ Len(text) <= MaxGenLen
    /\ ~StartsWith(Lower(Strip(text)), Prefix(user_message_lower, EchoPrefixLen))

\* main.py:301
ValidGeminiText(text, user_message_lower) ==
    /\ text # <<>>
    /\ MinGenLen < Len(text)
    /\ Len(text) < MaxGenLen
    /\ ~StartsWith(Lower(Strip(text)), Prefix(user_message_lower, EchoPrefixLen))

\* GeminiBlock without the except clause
GeminiBlock_Uncaught(g, user_message_lower) ==
    IF g.kind = "text"
    THEN [ generated |-> IF ValidGeminiText(g.text, user_message_lower)
                         THEN Some(Strip(g.text)) ELSE NoneStr,
           raised    |-> FALSE ]
    ELSE [ generated |-> NoneStr, raised |-> TRUE ]

\* main.py:289-307, the try block.  g.kind is "text" when generate_content
\* returned g.text, "exception" when the call or response.text raised (a
\* timeout of the request is one of these exceptions).
GeminiBlock(g, user_message_lower) ==
    IF g.kind = "text"
    THEN [ generated |-> IF ValidGeminiText(g.text, user_message_lower)
                         THEN Some(Strip(g.text)) ELSE NoneStr,
           raised    |-> FALSE ]
    ELSE [ generated |-> NoneStr, raised |-> FALSE ]

\* main.py:309-311
FinalResponse(generated_response, user_message) ==
    IF ~Truthy(generated_response) THEN get_contextual_fallback(user_message)
    ELSE generated_response.text

generate_ai_response(cache, t, user_message, gold_price_data, user_id, configured, g) ==
    LET lookup == is_cached_response(cache, t, user_message, user_id)
        user_message_lower == Strip(Lower(user_message))
        category  == Classify(user_message_lower)
        rule      == RuleResponse(category, gold_price_data)
        attempted == GeminiAttempted(rule, configured, user_message)
        gemini    == IF attempted THEN GeminiBlock(g, user_message_lower)
                     ELSE [generated |-> NoneStr, raised |-> FALSE]
        generated == IF Truthy(rule) THEN rule ELSE gemini.generated
        final     == FinalResponse(generated, user_message)
    IN  IF Truthy(lookup.result)
        THEN [ raised |-> FALSE, response |-> lookup.result.text, cache |-> lookup.cache,
               branch |-> "cached", category |-> "none", gen_invoked |-> FALSE,
               looked_up |-> lookup ]
        ELSE IF gemini.raised
        THEN [ raised |-> TRUE, response |-> <<>>, cache |-> lookup.cache,
               branch |-> "raised", category |-> category, gen_invoked |-> attempted,
               looked_up |-> lookup ]
        ELSE [ raised |-> FALSE, response |-> final,
               cache  |-> cache_response(lookup.cache, t, user_message, user_id, final),
               branch |-> IF Truthy(rule) THEN "rule"
                          ELSE IF Truthy(gemini.generated) THEN "generative"
                          ELSE "fallback",
               category |-> category, gen_invoked |-> attempted,
               looked_up |-> lookup ]

-----------------------------------------------------------------------------
(* Inputs *)

UserAnonymous == <<"a", "n", "o", "n", "y", "m", "o", "u", "s">>
UserOne == <<"u", "1">>

MsgPrice == <<"g", "o", "l", "d", " ", "p", "r", "i", "c", "e">>
MsgPriceVariant == <<" ", " ", "G", "o", "l", "d", " ", "P", "R", "I", "C", "E", " ">>
MsgNews == <<"l", "a", "t", "e", "s", "t", " ", "g", "o", "l", "d", " ", "n", "e", "w", "s">>
MsgGeneric == <<"t", "e", "l", "l", " ", "m", "e", " ", "a", "b", "o", "u", "t", " ", "g", "o", "l", "d", " ", "e", "t", "f", "s">>
MsgShort == <<"o", "k">>
MsgPriceInvest == <<"s", "h", "o", "u", "l", "d", " ", "i", " ", "b", "u", "y", " ", "a", "t", " ", "t", "h", "i", "s", " ", "p", "r", "i", "c", "e">>
MsgInvest == <<"s", "h", "o", "u", "l", "d", " ", "i", " ", "b", "u", "y", " ", "g", "o", "l", "d">>
MsgPurity == <<"w", "h", "a", "t", " ", "k", "a", "r", "a", "t", " ", "i", "s", " ", "b", "e", "s", "t">>
MsgMarket == <<"w", "h", "y", " ", "i", "s", " ", "g", "o", "l", "d", " ", "u", "p">>
MsgGreeting == <<"h", "e", "l", "l", "o">>
MsgHelp == <<"h", "e", "l", "p", " ", "m", "e">>
MsgThanks == <<"t", "h", "a", "n", "k", "s", " ", "a", " ", "l", "o", "t">>
MsgPraise == <<"g", "r", "e", "a", "t", " ", "s", "t", "u", "f", "f">>
MsgThanksGreat == <<"T", "h", "a", "n", "k", "s", ",", " ", "g", "r", "e", "a", "t", " ", "a", "n", "s", "w", "e", "r">>
MsgSixChars == <<"e", "t", "f", "s", " ", "?">>
MsgFiveChars == <<"e", "t", "f", "s", "?">>
MsgSpacePrefix == <<"n", "i", "n", "e", "t", "e", "e", "n", " ", "c", "h", "a", "r", "a", "c", "t", "e", "r", "s", " ", "a", "n", "d", " ", "m", "o", "r", "e">>
MsgEmpty == <<>>
MsgBlank == Rep(" ", 6)
MsgTooLong == Rep("x", MaxMessageLen + 1)

EchoOfGeneric == <<"T", "e", "l", "l", " ", "m", "e", " ", "a", "b", "o", "u", "t", " ", "g", "o", "l", "d", " ", "E", "T", "F", "s", ":", " ">>
BuyGold == <<"b", "u", "y", " ", "g", "o", "l", "d">>
NineteenCharacters == <<"n", "i", "n", "e", "t", "e", "e", "n", " ", "c", "h", "a", "r", "a", "c", "t", "e", "r", "s", " ">>

UserIds == {UserAnonymous, UserOne}

\* the requests of the server specification
Messages == {MsgPrice, MsgNews, MsgBlank}

\* the messages of the engine specification
EngineMessages ==
    { MsgPrice, MsgPriceVariant, MsgNews, MsgGeneric, MsgShort, MsgPriceInvest,
      MsgInvest, MsgPurity, MsgMarket, MsgGreeting, MsgHelp, MsgThanks, MsgPraise,
      MsgSixChars, MsgFiveChars, MsgSpacePrefix, MsgEmpty, MsgBlank, MsgThanksGreat }

GoldApiUp ==
    [ kind |-> "ok", price |-> 2018456, ch |-> 12350, chp |-> 610,
      high_price |-> 2025800, low_price |-> 2005200 ]
GoldApiDown ==
    [ kind |-> "ok", price |-> 1990004, ch |-> -15204, chp |-> -758,
      high_price |-> 2010000, low_price |-> 1985000 ]
GoldApiAt2000 ==
    [ kind |-> "ok", price |-> 2000000, ch |-> 0, chp |-> 0,
      high_price |-> 2000000, low_price |-> 2000000 ]
GoldApiFails == [kind |-> "exc"]
GoldApiStatus == [kind |-> "status"]
CoinGeckoExc == [kind |-> "exc"]
CoinGeckoNoGold == [kind |-> "nogold"]
CoinGeckoOk == [kind |-> "ok", usd |-> 6489, change |-> -60]
CoinGeckoFails == [kind |-> "status"]
\* one draw of the random factors, inside the ranges of main.py:192-196
MockDraw ==
    CHOOSE r \in {[price |-> 2000004, change |-> 4996]} :
        r.price \in MockPriceRange /\ r.change \in -35000..35000


NewsFound == [key |-> TRUE, kind |-> "ok", articles |-> <<"n1", "n2", "n3", "n4">>]
NewsDown == [key |-> TRUE, kind |-> "exc", articles |-> <<>>]

NoGen == [kind |-> "not called", text |-> <<>>]
GenText(txt) == [kind |-> "text", text |-> txt]
GenException == [kind |-> "exception", text |-> <<>>]

\* what the collaborators of one /chat request do: the two price providers,
\* the random draw of the synthesized quote, the news provider, Gemini
EnvLive ==
    [ gold_api |-> GoldApiUp, coin_gecko |-> CoinGeckoOk, mock |-> MockDraw,
      news |-> NewsFound, gemini |-> GenText(Rep("a", 60)) ]
EnvDegraded ==
    [ gold_api |-> GoldApiFails, coin_gecko |-> CoinGeckoFails, mock |-> MockDraw,
      news |-> NewsDown, gemini |-> GenException ]
Environments == {EnvLive, EnvDegraded}

EngineGenOutcomes ==
    { GenText(<<>>),
      GenText(Rep("x", MinGenLen - 1)), GenText(Rep("x", MinGenLen)),
      GenText(Rep("x", MinGenLen + 1)),
      GenText(Rep("x", MaxGenLen - 1)), GenText(Rep("x", MaxGenLen)),
      GenText(Rep("x", MaxGenLen + 1)),
      GenText(EchoOfGeneric \o Rep("x", 40)),
      GenText(<<" ", "\n">> \o EchoOfGeneric \o Rep("x", 40)),
      GenText(Rep(" ", 60)),
      GenText(Rep(" ", 30) \o BuyGold \o Rep("\n", 30)),
      GenText(NineteenCharacters \o Rep(" ", 40)),
      GenException }

EngineQuotes ==
    { NoQuote,
      get_gold_price(GoldApiUp, CoinGeckoFails, MockDraw, 0),
      get_gold_price(GoldApiDown, CoinGeckoFails, MockDraw, 0) }

TickSteps == {CACHE_DURATION - 1, CACHE_DURATION}

EmptyDict == [k \in {} |-> NoneStr]

-----------------------------------------------------------------------------
(* Observation of a handled request *)

NoObservation ==
    [ endpoint |-> "none", status |-> 0, message |-> <<>>, clean |-> <<>>,
      user_id |-> <<>>, time |-> 0, price_fetched |-> FALSE,
      search_called |-> FALSE, gold_price_data |-> NoQuote, sources |-> <<>>,
      response |-> <<>>, branch |-> "none", category |-> "none",
      gen_invoked |-> FALSE, gen |-> NoGen, raised |-> FALSE,
      had_entry |-> FALSE, entry_age |-> 0, entry_response |-> <<>>,
      lookup |-> NoneStr, evicted |-> FALSE,
      has_prev |-> FALSE, prev_time |-> 0, prev_stored_at |-> 0,
      prev_gen_at |-> -1, norm_asked |-> FALSE,
      prev_response |-> <<>>,
      gold_api |-> "none", coin_gecko |-> "none", providers |-> <<>>,
      request |-> <<>>, handler_entered |-> FALSE, purchase |-> <<>>,
      raced |-> FALSE ]

\* what a decide call d did, seen from its caller; norm_asked: the same user
\* has asked before a message with the same lower-cased, trimmed text
DecideObservation(base, cache, t, clean, user_id, quote, d, g, prev) ==
    LET h == get_response_hash(clean, user_id)
        had == h \in DOMAIN cache
        k == <<clean, user_id>>
    IN  [ base EXCEPT
            !.status = 200, !.clean = clean, !.user_id = user_id, !.time = t,
            !.gold_price_data = quote,
            !.response = IF d.raised THEN ApologyReply ELSE d.response,
            !.branch = d.branch, !.category = d.category,
            !.gen_invoked = d.gen_invoked,
            !.gen = IF d.gen_invoked THEN g ELSE NoGen,
            !.raised = d.raised,
            !.had_entry = had,
            !.entry_age = IF had THEN t - cache[h].timestamp ELSE 0,
            !.entry_response = IF had THEN cache[h].response ELSE <<>>,
            !.lookup = d.looked_up.result,
            !.evicted = had /\ h \notin DOMAIN d.looked_up.cache,
            !.has_prev = k \in DOMAIN prev,
            !.prev_time = IF k \in DOMAIN prev THEN prev[k].time ELSE 0,
            !.prev_stored_at = IF k \in DOMAIN prev THEN prev[k].stored_at ELSE 0,
            !.prev_gen_at = IF k \in DOMAIN prev THEN prev[k].gen_at ELSE -1,
            !.norm_asked = \E j \in DOMAIN prev :
                               j[2] = user_id /\ Strip(Lower(j[1])) = Strip(Lower(clean)),
            !.prev_response = IF k \in DOMAIN prev THEN prev[k].response ELSE <<>> ]

\* the call's time, the text it returned, the createdAt of the entry that
\* holds the text when the call returns, and the time of the latest call for
\* this (message, user_id) that invoked the generative backend (-1: none)
Remember(prev, clean, user_id, t, d) ==
    LET h == get_response_hash(clean, user_id)
    IN  [k \in (DOMAIN prev) \cup {<<clean, user_id>>} |->
            IF k = <<clean, user_id>>
            THEN [ time |-> t,
                   response |-> IF d.raised THEN ApologyReply ELSE d.response,
                   stored_at |-> IF h \in DOMAIN d.cache THEN d.cache[h].timestamp ELSE t,
                   gen_at |-> IF d.gen_invoked THEN t
                              ELSE IF <<clean, user_id>> \in DOMAIN prev
                                   THEN prev[<<clean, user_id>>].gen_at ELSE -1 ]
            ELSE prev[k]]

-----------------------------------------------------------------------------
(* The server: requests handled one after the other *)

Init ==
    /\ response_cache = EmptyDict
    /\ now = 0
    /\ model \in BOOLEAN
    /\ last = NoObservation
    /\ previous = EmptyDict
    /\ handled = 0
    /\ pending = <<>>

\* ValidChatMessage without strip()
ValidChatMessage_Unstripped(message) ==
    /\ message # <<>>
    /\ Len(message) <= MaxMessageLen

\* main.py:479-484
ValidChatMessage(message) ==
    /\ message # <<>>
    /\ Len(Strip(message)) >= 1
    /\ Len(message) <= MaxMessageLen

\* WantsNews testing the price keywords
WantsNews_PriceKeywords(clean_message) == AnyKeyword(Lower(clean_message), PriceKeywords)

\* main.py:498-499
WantsNews(clean_message) == AnyKeyword(Lower(clean_message), NewsKeywords)

\* the handler of POST /chat, main.py:473-527, run from its first to its last
\* line; raced says that a request with the same lower-cased, trimmed message
\* and user was handled while this one was waiting
handle_chat(message, user_id, env, raced) ==
    /\ handled' = handled + 1
    /\ UNCHANGED <<now, model>>
    /\ IF ~ValidChatMessage(message)
       THEN /\ last' = [NoObservation EXCEPT !.endpoint = "chat", !.status = 400,
                            !.message = message, !.user_id = user_id, !.time = now,
                            !.raced = raced]
            /\ UNCHANGED <<response_cache, previous>>
       ELSE LET clean == Strip(message)
                gold_price_data == get_gold_price(env.gold_api, env.coin_gecko, env.mock, now)
                wants_news == WantsNews(clean)
                search_results == IF wants_news THEN search_gold_info(env.news) ELSE <<>>
                base == [NoObservation EXCEPT !.endpoint = "chat", !.message = message,
                            !.raced = raced,
                            !.price_fetched = TRUE, !.search_called = wants_news,
                            !.sources = Prefix(search_results, 3)]
            IN  \E d \in {generate_ai_response(response_cache, now, clean, gold_price_data,
                                               user_id, model, env.gemini)} :
                    /\ response_cache' = d.cache
                    /\ last' = DecideObservation(base, response_cache, now, clean, user_id,
                                                 gold_price_data, d, env.gemini, previous)
                    /\ previous' = Remember(previous, clean, user_id, now, d)

\* POST /chat, accepted and handled at once
chat_inquiry(message, user_id, env) ==
    /\ handled < MaxHandled
    /\ handle_chat(message, user_id, env, FALSE)
    /\ UNCHANGED pending

Tick(step) ==
    /\ now + step <= MaxTime
    /\ now' = now + step
    /\ UNCHANGED <<response_cache, model, last, previous, handled, pending>>

Next ==
    \/ \E message \in Messages, user_id \in UserIds, env \in Environments :
            chat_inquiry(message, user_id, env)
    \/ \E step \in TickSteps : Tick(step)

Spec == Init /\ [][Next]_vars

-----------------------------------------------------------------------------
(* The engine alone: one call of generate_ai_response on a cache that an    *)
(* earlier call left behind                                                 *)

SeedCaches ==
    { EmptyDict,
      generate_ai_response(EmptyDict, 0, MsgGeneric, NoQuote, UserAnonymous,
                           FALSE, NoGen).cache,
      generate_ai_response(EmptyDict, 0, MsgPrice,
                           get_gold_price(GoldApiUp, CoinGeckoFails, MockDraw, 0),
                           UserAnonymous, FALSE, NoGen).cache }

SeedTimes == {0, CACHE_DURATION - 1, CACHE_DURATION}

InitEngine ==
    /\ response_cache \in SeedCaches
    /\ now \in SeedTimes
    /\ model \in BOOLEAN
    /\ last = NoObservation
    /\ previous = EmptyDict
    /\ handled = 0
    /\ pending = <<>>

Decide(user_message, gold_price_data, user_id, g) ==
    /\ handled' = handled + 1
    /\ UNCHANGED <<now, model, pending>>
    /\ \E d \in {generate_ai_response(response_cache, now, user_message,
                                       gold_price_data, user_id, model, g)} :
           /\ response_cache' = d.cache
           /\ last' = DecideObservation(
                         [NoObservation EXCEPT !.endpoint = "decide", !.message = user_message],
                         response_cache, now, user_message, user_id,
                         gold_price_data, d, g, previous)
           /\ previous' = Remember(previous, user_message, user_id, now, d)

\* the outcome of the generative call is drawn only when the call is made
GenChoices(user_message, gold_price_data, user_id) ==
    IF generate_ai_response(response_cache, now, user_message, gold_price_data,
                            user_id, model, NoGen).gen_invoked
    THEN EngineGenOutcomes ELSE {NoGen}

NextEngine ==
    /\ handled = 0
    /\ \E user_message \in EngineMessages, gold_price_data \in EngineQuotes,
          user_id \in UserIds :
           \E g \in GenChoices(user_message, gold_price_data, user_id) :
               Decide(user_message, gold_price_data, user_id, g)

SpecEngine == InitEngine /\ [][NextEngine]_vars

-----------------------------------------------------------------------------
(* The server again, with requests whose messages differ only in letter     *)
(* case and surrounding whitespace                                          *)

KeyMessages == {MsgPrice, MsgPriceVariant}

NextKeys ==
    \/ \E message \in KeyMessages, user_id \in UserIds, env \in Environments :
            chat_inquiry(message, user_id, env)
    \/ \E step \in TickSteps : Tick(step)

SpecKeys == Init /\ [][NextKeys]_vars

-----------------------------------------------------------------------------
(* The server with messages and user ids that hold the separator "_" of the *)
(* key string                                                               *)

MsgPriceTagged == <<"g", "o", "l", "d", " ", "p", "r", "i", "c", "e", "_", "x">>
UserY == <<"y">>
UserXY == <<"x", "_", "y">>

\* (message, user_id) of the requests
SeparatorRequests == {<<MsgPriceTagged, UserY>>, <<MsgPrice, UserXY>>, <<MsgPrice, UserY>>}

NextSeparator ==
    \/ \E r \in SeparatorRequests, env \in Environments : chat_inquiry(r[1], r[2], env)
    \/ \E step \in TickSteps : Tick(step)

SpecSeparator == Init /\ [][NextSeparator]_vars

-----------------------------------------------------------------------------
(* The other endpoints: GET /gold-price and POST /purchase, with POST /chat *)
(* on messages that fail its validation                                     *)

\* gold_price_data that is not truthy to the endpoint: dict that is only a
\* synthesized quote
QuoteTruthy_LiveOnly(price_data) ==
    DOMAIN price_data # {} /\ price_data.source # "enhanced_mock"

\* "if price_data", "if gold_price_data": a dict is truthy unless empty
QuoteTruthy(price_data) == DOMAIN price_data # {}

\* GET /gold-price, main.py:587-600
get_current_gold_price(env) ==
    /\ handled < MaxHandled
    /\ handled' = handled + 1
    /\ UNCHANGED <<response_cache, now, model, previous, pending>>
    /\ LET price_data == get_gold_price(env.gold_api, env.coin_gecko, env.mock, now)
           base == [NoObservation EXCEPT !.endpoint = "gold-price", !.time = now,
                       !.handler_entered = TRUE, !.price_fetched = TRUE,
                       !.gold_api = env.gold_api.kind, !.coin_gecko = env.coin_gecko.kind,
                       !.providers = ProvidersCalled(env.gold_api, env.coin_gecko)]
       IN  IF QuoteTruthy(price_data)
           THEN last' = [base EXCEPT !.status = 200, !.gold_price_data = price_data]
           ELSE last' = [base EXCEPT !.status = 503]

\* the fields of GoldPurchaseRequest that the handler tests, main.py:534
RequiredText == {"user_name", "email", "phone", "delivery_address"}

\* GoldPurchaseRequest declares its text fields as str without default: a
\* body that lacks one is refused by the request model before the handler runs
ParsesAsPurchase(body) == \A f \in RequiredText : ~body[f].is_none

\* not all([user_name, email, phone, delivery_address])
AllFieldsGiven(body) == \A f \in RequiredText : body[f].text # <<>>

\* the premiums of main.py:545-550 in units of 0.5 %
premiums == [coins |-> 10, bars |-> 6, jewelry |-> 60, digital_gold |-> 5]
DefaultPremium == 10
DefaultPrice == 2018450

platforms ==
    [ jewelry      |-> "https://www.tanishq.co.in/",
      bars         |-> "https://www.mmtc-pamp.com/",
      coins        |-> "https://www.apmex.com/",
      digital_gold |-> "https://paytm.com/gold" ]

\* round(a * n / d) for 0 <= a, without forming a * n
MulDivRound(a, n, d) == (a \div d) * n + RoundDiv((a % d) * n, d)

\* EstimatedCost that prices every quantity as ounces
EstimatedCost_OuncesOnly(gold_type, quantity, current_price) ==
    LET premium == IF gold_type \in DOMAIN premiums THEN premiums[gold_type]
                   ELSE DefaultPremium
    IN  MulDivRound(current_price * (200 + premium), quantity, 2000)

\* round(estimated_cost, 2) in cents; current_price in mills, quantity a whole
\* number of ounces, of grams for jewelry
EstimatedCost(gold_type, quantity, current_price) ==
    LET premium == IF gold_type \in DOMAIN premiums THEN premiums[gold_type]
                   ELSE DefaultPremium
        per_unit == current_price * (200 + premium)
    IN  IF gold_type = "jewelry"
        THEN MulDivRound(per_unit, 5 * quantity, GramsPerOunce4)
        ELSE MulDivRound(per_unit, quantity, 2000)

\* POST /purchase, main.py:529-585
initiate_gold_purchase(body, env) ==
    /\ handled < MaxHandled
    /\ handled' = handled + 1
    /\ UNCHANGED <<response_cache, now, model, previous, pending>>
    /\ LET base == [NoObservation EXCEPT !.endpoint = "purchase", !.time = now,
                       !.request = body]
           entered == [base EXCEPT !.handler_entered = TRUE]
       IN  IF ~ParsesAsPurchase(body)
           THEN last' = [base EXCEPT !.status = 422]
           ELSE IF ~AllFieldsGiven(body)
           THEN last' = [entered EXCEPT !.status = 400]
           ELSE IF body.quantity <= 0
           THEN last' = [entered EXCEPT !.status = 400]
           ELSE LET gold_price_data == get_gold_price(env.gold_api, env.coin_gecko,
                                                      env.mock, now)
                    current_price == IF QuoteTruthy(gold_price_data)
                                     THEN gold_price_data.current_price
                                     ELSE DefaultPrice
                    gold_type == body.gold_type
                IN  last' = [entered EXCEPT
                        !.status = 200, !.price_fetched = TRUE,
                        !.gold_price_data = gold_price_data,
                        !.gold_api = env.gold_api.kind,
                        !.coin_gecko = env.coin_gecko.kind,
                        !.providers = ProvidersCalled(env.gold_api, env.coin_gecko),
                        !.purchase =
                            [ purchase_id    |-> <<now, body.email.text>>,
                              redirect_url   |-> IF gold_type \in DOMAIN platforms
                                                 THEN platforms[gold_type]
                                                 ELSE platforms["coins"],
                              estimated_cost |-> EstimatedCost(gold_type, body.quantity,
                                                               current_price),
                              gold_type      |-> gold_type,
                              quantity       |-> body.quantity,
                              unit           |-> IF gold_type = "jewelry" THEN "grams"
                                                 ELSE "oz" ]]

GoldTypes == {"coins", "bars", "jewelry", "digital_gold", "digital", "platinum"}
Quantities == {-1, 0, 1, 3, 10}

ValidBody ==
    [ user_name |-> Some(<<"A">>), email |-> Some(<<"a", "@", "b">>),
      phone |-> Some(<<"1">>), delivery_address |-> Some(<<"x">>),
      gold_type |-> "bars", quantity |-> 1 ]

\* request bodies: every type and quantity with the text fields given; one
\* text field absent, empty or blank; two faults at once
PurchaseBodies ==
    {[ValidBody EXCEPT !.gold_type = g, !.quantity = q] : g \in GoldTypes, q \in Quantities}
    \cup {[ValidBody EXCEPT ![f] = v] :
              f \in RequiredText, v \in {NoneStr, Some(<<>>), Some(<<" ">>)}}
    \cup {[ValidBody EXCEPT !.user_name = Some(<<>>), !.quantity = 0],
          [ValidBody EXCEPT !.phone = NoneStr, !.quantity = 0]}

\* outcomes of the two providers for one fetch
PriceEnvs ==
    {[gold_api |-> a, coin_gecko |-> b, mock |-> MockDraw] :
        a \in {GoldApiUp, GoldApiAt2000, GoldApiStatus, GoldApiFails},
        b \in {CoinGeckoOk, CoinGeckoFails, CoinGeckoExc, CoinGeckoNoGold}}

PurchaseEnvs ==
    {[gold_api |-> a, coin_gecko |-> b, mock |-> MockDraw] :
        a \in {GoldApiAt2000, GoldApiFails}, b \in {CoinGeckoOk, CoinGeckoNoGold}}

ApiMessages == {MsgPrice, MsgEmpty, MsgBlank, MsgTooLong}

InitApi ==
    /\ response_cache \in SeedCaches
    /\ now = 0
    /\ model = TRUE
    /\ last = NoObservation
    /\ previous = EmptyDict
    /\ handled = 0
    /\ pending = <<>>

NextApi ==
    \/ \E env \in PriceEnvs : get_current_gold_price(env)
    \/ \E body \in PurchaseBodies, env \in PurchaseEnvs : initiate_gold_purchase(body, env)
    \/ \E message \in ApiMessages, user_id \in UserIds, env \in Environments :
            chat_inquiry(message, user_id, env)

SpecApi == InitApi /\ [][NextApi]_vars

-----------------------------------------------------------------------------
(* Requests in flight together.  The endpoints are coroutines without an    *)
(* await (main.py:473-527): the event loop runs the handler of one accepted  *)
(* request from its first to its last line before it starts the next, and   *)
(* the clock moves on while a handler waits for its providers.              *)

MaxPending == 2

RaceMessages == {MsgNews}

\* the server accepts a request while others wait or run
accept_chat(message, user_id) ==
    /\ Len(pending) < MaxPending
    /\ handled + Len(pending) < MaxHandled
    /\ pending' = Append(pending, [message |-> message, user_id |-> user_id,
                                    raced |-> FALSE])
    /\ UNCHANGED <<response_cache, now, model, last, previous, handled>>

\* the accepted requests p and q ask the same thing for the same user
SameFingerprint(p, q) ==
    p.user_id = q.user_id /\ Strip(Lower(p.message)) = Strip(Lower(q.message))

\* the event loop runs the handler of an accepted request; the others wait
run_chat(i, env) ==
    /\ i \in 1..Len(pending)
    /\ handle_chat(pending[i].message, pending[i].user_id, env, pending[i].raced)
    /\ pending' = [j \in 1..(Len(pending) - 1) |->
                        LET p == IF j < i THEN pending[j] ELSE pending[j + 1]
                        IN  [p EXCEPT !.raced = p.raced \/ SameFingerprint(p, pending[i])]]

NextRace ==
    \/ \E message \in RaceMessages, user_id \in UserIds : accept_chat(message, user_id)
    \/ \E i \in 1..MaxPending, env \in Environments : run_chat(i, env)
    \/ \E step \in TickSteps : Tick(step)

SpecRace == Init /\ [][NextRace]_vars

-----------------------------------------------------------------------------
(* Properties *)

Served == last.status = 200
KeyOfLast == get_response_hash(last.clean, last.user_id)
ContextualReplies == {GratitudeReply, PraiseReply, ShortReply, GenericReply}

\* reading a printed amount back: the value in cents of the number that
\* follows the chunk mark in text
Digit(c) == CHOOSE n \in 0..9 : DigitChar[n + 1] = c

RECURSIVE Number(_)
Number(ds) == IF ds = <<>> THEN 0
              ELSE 10 * Number(SubSeq(ds, 1, Len(ds) - 1)) + Digit(ds[Len(ds)])

HasMark(text, mark) == \E i \in 1..Len(text) : text[i] = mark

AmountAfter(text, mark) ==
    LET at    == CHOOSE i \in 1..Len(text) : text[i] = mark
        neg   == text[at + 1] = "-"
        start == IF text[at + 1] \in {"+", "-"} THEN at + 2 ELSE at + 1
        dot   == CHOOSE j \in start..Len(text) :
                     text[j] = "." /\ \A k \in start..(j - 1) : text[k] # "."
        cents == 100 * Number(SubSeq(text, start, dot - 1))
                     + 10 * Digit(text[dot + 1]) + Digit(text[dot + 2])
    IN  IF neg THEN -cents ELSE cents

\* the number of cents nearest to x mills
NearestCents(x) == CHOOSE c \in ((x \div 10) - 1)..((x \div 10) + 1) : 10 * c - x \in -4..4

\* the echo test on a generative text, as the text is returned: trimmed,
\* compared without regard to case
EchoesInput(text, message) ==
    StartsWith(Lower(Strip(text)), Prefix(Strip(Lower(message)), EchoPrefixLen))

\* C1 as claimed: a decide call made less than 300 seconds after the previous
\* call with the same (message, userId) returns the text that call returned
\* and does not invoke the generative backend.
C1_AsClaimed ==
    (Served /\ last.has_prev /\ last.time - last.prev_time < CACHE_DURATION)
        => (last.response = last.prev_response /\ ~last.gen_invoked)

\* C1 (amended): a decide call made less than 300 seconds after the entry
\* holding the previous call's text was created (the time of the previous call
\* when that call missed the cache, an earlier time when it was itself a hit)
\* returns the text the previous call returned, from the cache, without
\* invoking the generative backend.
C1_CacheIdempotence ==
    (Served /\ last.has_prev /\ last.time - last.prev_stored_at < CACHE_DURATION)
        => /\ last.response = last.prev_response
           /\ last.branch = "cached"
           /\ ~last.gen_invoked

C1_Witness ==
    /\ Served /\ last.has_prev /\ model
    /\ last.clean = MsgNews
    /\ last.time - last.prev_stored_at = CACHE_DURATION - 1
    /\ last.prev_response = Rep("a", 60)
    /\ last.response = last.prev_response
    /\ ~last.gen_invoked

\* C2: a lookup that finds an entry aged 300 seconds or more reports absent
\* and deletes the entry; the decide call then classifies the message again
\* instead of answering from the cache.
C2_CacheExpiry ==
    (Served /\ last.had_entry /\ last.entry_age >= CACHE_DURATION)
        => /\ last.lookup = NoneStr
           /\ last.evicted
           /\ last.branch \in {"rule", "generative", "fallback"}
           /\ last.category = Classify(Strip(Lower(last.clean)))

\* the repeat call at age exactly 300 produced a text other than the stored one
C2_Witness ==
    /\ Served /\ last.had_entry
    /\ last.entry_age = CACHE_DURATION
    /\ last.evicted
    /\ last.response # last.entry_response

\* C3 as claimed: a /chat request answered from the cache calls neither the
\* price adapter nor the search adapter.
C3_AsClaimed ==
    (Served /\ last.endpoint = "chat" /\ last.branch = "cached")
        => (~last.price_fetched /\ ~last.search_called)

\* C3 (amended): a cache hit short-circuits the engine only (no
\* classification, no generative call); the caller has fetched the price
\* before the lookup for every valid request, and has called the search
\* adapter exactly when the message contains a news keyword.
C3_HitSkipsEngineOnly ==
    (Served /\ last.endpoint = "chat" /\ last.branch = "cached")
        => /\ ~last.gen_invoked
           /\ last.category = "none"
           /\ last.price_fetched
           /\ last.gold_price_data # NoQuote
           /\ last.search_called <=> (\E k \in NewsKeywords : Contains(Lower(last.clean), k))

C3_Witness ==
    /\ Served /\ last.endpoint = "chat" /\ last.branch = "cached"
    /\ last.price_fetched /\ last.search_called
    /\ last.sources = <<"n1", "n2", "n3">>

\* C4 as claimed: the response to a message with a price keyword embeds the
\* current price and the 24h change of the quote fetched for that request
\* (printed with two decimals).
C4_AsClaimed ==
    (Served /\ last.endpoint = "chat" /\ AnyKeyword(Lower(last.clean), PriceKeywords))
        => /\ HasMark(last.response, PriceMark)
           /\ AmountAfter(last.response, PriceMark)
                  = NearestCents(last.gold_price_data.current_price)
           /\ AmountAfter(last.response, ChangeMark)
                  = NearestCents(last.gold_price_data.change_24h)

\* C4 (amended): when the request misses the cache, the response to a message
\* with a price keyword embeds the current price and the 24h change of the
\* quote fetched for that request, rounded to two decimals; when it hits the
\* cache, the response is the stored text, whatever the quote of the request.
C4_PriceEmbedded ==
    (Served /\ last.endpoint = "chat" /\ AnyKeyword(Lower(last.clean), PriceKeywords))
        => IF last.branch = "cached"
           THEN last.response = last.entry_response
           ELSE /\ HasMark(last.response, PriceMark)
                /\ AmountAfter(last.response, PriceMark)
                       = NearestCents(last.gold_price_data.current_price)
                /\ AmountAfter(last.response, ChangeMark)
                       = NearestCents(last.gold_price_data.change_24h)

\* a miss that printed 2018.456 as 2018.46
C4_Witness ==
    /\ Served /\ last.endpoint = "chat" /\ last.clean = MsgPrice
    /\ last.branch = "rule"
    /\ last.gold_price_data.current_price = 2018456
    /\ AmountAfter(last.response, PriceMark) = 201846
    /\ AmountAfter(last.response, ChangeMark) = 1235

\* C5: on a cache miss the reply is the template of the first category, in
\* the order price, investment, purity, market analysis, greeting, help,
\* one of whose keywords occurs in the lower-cased message.
C5_KeywordPriority ==
    (Served /\ last.branch # "cached")
        => LET l == Strip(Lower(last.clean))
               Has(set) == \E k \in set : Contains(l, k)
           IN  /\ Has(PriceKeywords) =>
                    (HasMark(last.response, PriceMark) \/ last.response = FallbackPriceResponse)
               /\ (~Has(PriceKeywords) /\ Has(InvestKeywords)) =>
                    last.response = InvestmentAdvice
               /\ (~Has(PriceKeywords) /\ ~Has(InvestKeywords) /\ Has(PurityKeywords)) =>
                    last.response = PurityGuide
               /\ (~Has(PriceKeywords) /\ ~Has(InvestKeywords) /\ ~Has(PurityKeywords)
                     /\ Has(MarketKeywords)) =>
                    last.response = MarketAnalysis
               /\ (~Has(PriceKeywords) /\ ~Has(InvestKeywords) /\ ~Has(PurityKeywords)
                     /\ ~Has(MarketKeywords) /\ Has(GreetingKeywords)) =>
                    last.response = GreetingResponse
               /\ (~Has(PriceKeywords) /\ ~Has(InvestKeywords) /\ ~Has(PurityKeywords)
                     /\ ~Has(MarketKeywords) /\ ~Has(GreetingKeywords) /\ Has(HelpKeywords)) =>
                    last.response = HelpResponse

\* a message with a price keyword and an investment keyword got the price template
C5_Witness ==
    /\ Served /\ last.branch = "rule"
    /\ last.clean = MsgPriceInvest
    /\ HasMark(last.response, PriceMark)

\* C6: the generative backend is invoked only if the cache missed, no keyword
\* category matched, a backend is configured and the message has more than 5
\* characters.
C6_GenerativeOnlyIf ==
    (Served /\ last.gen_invoked)
        => /\ ~(last.had_entry /\ last.entry_age < CACHE_DURATION)
           /\ \A set \in {PriceKeywords, InvestKeywords, PurityKeywords, MarketKeywords,
                          GreetingKeywords, HelpKeywords} :
                  \A k \in set : ~Contains(Strip(Lower(last.clean)), k)
           /\ model
           /\ Len(last.clean) > 5

\* invoked for a message of 6 characters
C6_Witness ==
    /\ Served /\ last.gen_invoked
    /\ last.clean = MsgSixChars
    /\ last.gen.kind = "text"

\* C7 as claimed: a generative result that is empty, shorter than 50
\* characters, or that starts with the first 20 characters of the lower-cased
\* input is never returned; the contextual default is returned and cached.
C7_AsClaimed ==
    (/\ Served /\ last.gen_invoked /\ last.gen.kind = "text"
     /\ \/ last.gen.text = <<>>
        \/ Len(last.gen.text) < 50
        \/ StartsWith(last.gen.text, Prefix(Strip(Lower(last.clean)), 20)))
        => /\ last.response \in ContextualReplies
           /\ last.branch = "fallback"
           /\ response_cache[KeyOfLast].response = last.response

\* C8 as claimed: a non-empty generative result of 50 to 1500 characters that
\* is not a near-echo of the input passes validation and is the text returned.
C8_AsClaimed ==
    (/\ Served /\ last.gen_invoked /\ last.gen.kind = "text"
     /\ last.gen.text # <<>>
     /\ Len(last.gen.text) >= 50 /\ Len(last.gen.text) <= 1500
     /\ ~EchoesInput(last.gen.text, last.clean))
        => (last.branch = "generative" /\ last.response = last.gen.text)

\* C8 (amended): a generative result of 51 to 1499 characters that is not a
\* near-echo of the input passes validation, and the text returned is the
\* result with its surrounding whitespace trimmed, or the contextual default
\* when trimming leaves nothing; results of exactly 50 or exactly 1500
\* characters are rejected and the contextual default is returned.
C8_AcceptanceBounds ==
    (Served /\ last.gen_invoked /\ last.gen.kind = "text")
        => /\ (/\ Len(last.gen.text) > 50 /\ Len(last.gen.text) < 1500
               /\ ~EchoesInput(last.gen.text, last.clean))
                 => IF Strip(last.gen.text) # <<>>
                    THEN last.branch = "generative" /\ last.response = Strip(last.gen.text)
                    ELSE last.branch = "fallback" /\ last.response \in ContextualReplies
           /\ Len(last.gen.text) \in {50, 1500}
                 => (last.branch = "fallback" /\ last.response \in ContextualReplies)

\* a result of 1499 characters was returned
C8_Witness ==
    /\ Served /\ last.gen_invoked /\ last.gen.kind = "text"
    /\ Len(last.gen.text) = 1499
    /\ last.branch = "generative"
    /\ last.response = last.gen.text

\* C9: every decide call returns a non-empty text and raises nothing,
\* whatever the message, the quote (present or absent) and the outcome of
\* the generative call.
C9_EngineTotal ==
    (last.endpoint = "decide")
        => /\ last.status = 200
           /\ ~last.raised
           /\ last.response # <<>>
           /\ Len(last.response) > 0
           /\ last.response # ApologyReply

\* the generative call raised, no quote was available
C9_Witness ==
    /\ last.endpoint = "decide"
    /\ last.gen_invoked /\ last.gen.kind = "exception"
    /\ last.gold_price_data = NoQuote
    /\ last.response \in ContextualReplies

\* C10: a decide call that does not end in the cache-hit branch leaves, under
\* the fingerprint of (message, userId), exactly the text it returns with the
\* time of the call as createdAt, whatever entry was there before.
C10_CacheStore ==
    (Served /\ last.branch # "cached")
        => /\ KeyOfLast \in DOMAIN response_cache
           /\ response_cache[KeyOfLast]
                  = [response |-> last.response, timestamp |-> last.time]

\* the call replaced an expired entry holding another text
C10_Witness ==
    /\ Served /\ last.branch = "generative"
    /\ last.had_entry /\ last.entry_response # last.response
    /\ response_cache[KeyOfLast] = [response |-> last.response, timestamp |-> last.time]
    /\ last.time > 0

\* C11: for a fixed (message, userId), a decide call that invokes the
\* generative backend comes at least 300 seconds after the previous call for
\* that pair that invoked it, also when that invocation raised or was rejected.
C11_NoDuplicateGenerativeCall ==
    (Served /\ last.gen_invoked /\ last.prev_gen_at >= 0)
        => last.time - last.prev_gen_at >= CACHE_DURATION

\* the backend raised, its fallback text was cached, and the next invocation
\* for the pair came exactly 300 seconds later
C11_Witness ==
    /\ Served /\ last.gen_invoked /\ last.has_prev
    /\ last.prev_gen_at = last.prev_time
    /\ last.prev_response \in ContextualReplies
    /\ last.time - last.prev_gen_at = CACHE_DURATION

\* the calls made so far by the user of k with the normalised message of k
SameSlot(k) ==
    {j \in DOMAIN previous : j[2] = k[2] /\ Strip(Lower(j[1])) = Strip(Lower(k[1]))}

LatestOf(calls) == CHOOSE j \in calls : \A i \in calls : previous[i].time <= previous[j].time

\* C12: a request is answered from the cache only if the same user asked the
\* same lower-cased, trimmed message before; and the entry under the key of a
\* call is the one left by the latest call of the same user with the same
\* lower-cased, trimmed message, whatever other users asked in between and
\* whatever the letter case and surrounding whitespace of the messages.
C12_FingerprintSlots ==
    /\ (Served /\ last.branch = "cached") => last.norm_asked
    /\ \A k \in DOMAIN previous :
          LET h == get_response_hash(k[1], k[2])
              latest == LatestOf(SameSlot(k))
          IN  /\ h \in DOMAIN response_cache
              /\ response_cache[h] = [ response  |-> previous[latest].response,
                                       timestamp |-> previous[latest].stored_at ]

\* two users asked "gold price" and hold different texts; UserOne then sent
\* "  Gold PRICE " and was answered with the text of UserOne's entry
C12_Witness ==
    /\ Served /\ last.branch = "cached"
    /\ last.message = MsgPriceVariant /\ last.user_id = UserOne
    /\ <<MsgPrice, UserOne>> \in DOMAIN previous
    /\ <<MsgPrice, UserAnonymous>> \in DOMAIN previous
    /\ previous[<<MsgPrice, UserAnonymous>>].response # previous[<<MsgPrice, UserOne>>].response
    /\ last.response = previous[<<MsgPrice, UserOne>>].response
    /\ Cardinality(DOMAIN response_cache) = 2

\* a handled request that called get_gold_price
FetchObserved == last.endpoint \in {"gold-price", "purchase"} /\ last.price_fetched
ProviderFailed(kind) == kind \in {"status", "exc", "nogold"}
PriceTiers == {"goldapi_io", "coingecko", "enhanced_mock"}

\* C13: get_gold_price always returns a quote; provider A is asked first,
\* provider B only after provider A raised or answered a non-success status,
\* the synthesized quote is made only after both failed, and the source field
\* of the quote names the tier it came from.
C13_FallbackChain ==
    FetchObserved =>
        LET quote == last.gold_price_data
            called == {last.providers[i] : i \in 1..Len(last.providers)}
        IN  /\ "source" \in DOMAIN quote /\ quote.source \in PriceTiers
            /\ "current_price" \in DOMAIN quote
            /\ last.providers[1] = "goldapi_io"
            /\ "coingecko" \in called =>
                   /\ ProviderFailed(last.gold_api)
                   /\ last.providers = <<"goldapi_io", "coingecko">>
            /\ quote.source = "goldapi_io" <=> last.gold_api = "ok"
            /\ quote.source = "coingecko" <=>
                   (ProviderFailed(last.gold_api) /\ last.coin_gecko = "ok")
            /\ quote.source = "enhanced_mock" <=>
                   (ProviderFailed(last.gold_api) /\ ProviderFailed(last.coin_gecko))
            /\ quote.source \in {"coingecko", "enhanced_mock"} => "coingecko" \in called

C13_Witness ==
    /\ FetchObserved
    /\ last.gold_api = "exc" /\ last.coin_gecko = "nogold"
    /\ last.providers = <<"goldapi_io", "coingecko">>
    /\ last.gold_price_data.source = "enhanced_mock"

\* C14: GET /gold-price answers 200 with a quote whatever the two providers
\* did, with source enhanced_mock when both failed; it never answers 503 or
\* another error.
C14_GoldPriceTotal ==
    last.endpoint = "gold-price" =>
        /\ last.status = 200
        /\ last.gold_price_data # NoQuote
        /\ last.gold_price_data.source \in PriceTiers
        /\ (ProviderFailed(last.gold_api) /\ ProviderFailed(last.coin_gecko))
               => last.gold_price_data.source = "enhanced_mock"

C14_Witness ==
    /\ last.endpoint = "gold-price" /\ last.status = 200
    /\ last.gold_api = "status" /\ last.coin_gecko = "exc"
    /\ last.gold_price_data.source = "enhanced_mock"

\* an accepted purchase
Estimated == last.endpoint = "purchase" /\ last.status = 200

\* the premium of a gold type in units of 0.5 %
PremiumOf(gold_type) ==
    CASE gold_type = "coins" -> 10
      [] gold_type = "bars" -> 6
      [] gold_type = "jewelry" -> 60
      [] gold_type = "digital_gold" -> 5
      [] OTHER -> 10

\* cents is the amount in cents nearest to
\* quantity_in_oz * current_price * (1 + premium): with per_unit the price
\* of one ounce with premium in units of 1/200 mill, the amount is
\* per_unit * n / d cents, and cents is within half a cent of it
NearestToCost(cents, gold_type, quantity, current_price) ==
    LET per_unit == current_price * (200 + PremiumOf(gold_type))
        n == IF gold_type = "jewelry" THEN 5 * quantity ELSE quantity
        d == IF gold_type = "jewelry" THEN GramsPerOunce4 ELSE 2000
        e == cents - (per_unit \div d) * n
    IN  e \in 0..n /\ 2 * Abs(e * d - (per_unit % d) * n) <= d

CostAsSpecified ==
    Estimated =>
        NearestToCost(last.purchase.estimated_cost, last.purchase.gold_type,
                      last.purchase.quantity, last.gold_price_data.current_price)

\* the two purchases of the spec's example, at a price of 2000.00
BarAt2000 ==
    /\ Estimated /\ last.gold_price_data.current_price = 2000000
    /\ last.purchase.gold_type = "bars" /\ last.purchase.quantity = 1
JewelryAt2000 ==
    /\ Estimated /\ last.gold_price_data.current_price = 2000000
    /\ last.purchase.gold_type = "jewelry" /\ last.purchase.quantity = 10

\* C15 as written: the formula, 2060.00 for one bar and about 835.85 for 10
\* grams of jewelry at a price of 2000.
C15_AsClaimed ==
    /\ CostAsSpecified
    /\ BarAt2000 => last.purchase.estimated_cost = 206000
    /\ JewelryAt2000 => last.purchase.estimated_cost = 83585

\* C15: the estimate of an accepted purchase is quantity_in_oz * currentPrice
\* * (1 + premium) rounded to cents, with premium 5 % for coins, 3 % for bars,
\* 30 % for jewelry, 2.5 % for digital_gold and 5 % for any other type, and
\* quantity_in_oz = quantity / 31.1035 for jewelry, quantity otherwise; one
\* bar at 2000 costs 2060.00 and 10 grams of jewelry at 2000 cost 835.92.
C15_Estimate ==
    /\ CostAsSpecified
    /\ BarAt2000 => last.purchase.estimated_cost = 206000
    /\ JewelryAt2000 => last.purchase.estimated_cost = 83592

C15_Witness ==
    /\ JewelryAt2000
    /\ last.purchase.estimated_cost = 83592
    /\ last.purchase.unit = "grams"

\* C16 as written: POST /purchase answers 400 when one of user_name, email,
\* phone, delivery_address is missing or empty or quantity is not above 0,
\* and then fetches no price and makes no estimate or redirect.
C16_AsClaimed ==
    (/\ last.endpoint = "purchase"
     /\ \/ \E f \in RequiredText : last.request[f].is_none \/ last.request[f].text = <<>>
        \/ last.request.quantity <= 0)
        => /\ last.status = 400
           /\ ~last.price_fetched
           /\ last.purchase = <<>>

\* a message that POST /chat refuses: empty, whitespace only, or longer than
\* 1000 characters
InvalidChatText(m) ==
    \/ \A i \in 1..Len(m) : m[i] \in Whitespace
    \/ Len(m) > MaxMessageLen

\* C17: POST /chat answers 400 to an empty, whitespace-only or over-long
\* message without fetching a price, searching, looking up or storing in
\* the cache; the cache is left as it was and the answer stays a 400.
C17_ChatValidation ==
    [][(/\ handled' = handled + 1
        /\ last'.endpoint = "chat"
        /\ InvalidChatText(last'.message))
          => /\ last'.status = 400
             /\ ~last'.price_fetched /\ ~last'.search_called
             /\ last'.branch = "none" /\ ~last'.had_entry /\ ~last'.evicted
             /\ response_cache' = response_cache
             /\ previous' = previous]_vars

C17_Witness ==
    /\ last.endpoint = "chat" /\ last.status = 400
    /\ last.message = MsgTooLong
    /\ response_cache # EmptyDict

\* the message of the last call has a word of the list in it, whatever its case
HasToken(words) == \E w \in words : Contains(Lower(last.clean), w)

\* C18: when no keyword category matched and no generative text was
\* accepted, the reply is the gratitude reply if the message has a gratitude
\* token, else the praise reply if it has a praise token, else the
\* short-message reply if it has fewer than 3 words, else the generic reply.
C18_ContextualOrder ==
    (Served /\ last.branch = "fallback") =>
        /\ HasToken(GratitudeWords) => last.response = GratitudeReply
        /\ (~HasToken(GratitudeWords) /\ HasToken(PraiseWords))
               => last.response = PraiseReply
        /\ (~HasToken(GratitudeWords) /\ ~HasToken(PraiseWords)
                /\ WordCount(last.clean) < 3)
               => last.response = ShortReply
        /\ (~HasToken(GratitudeWords) /\ ~HasToken(PraiseWords)
                /\ WordCount(last.clean) >= 3)
               => last.response = GenericReply

\* a message of three words with a gratitude and a praise token, after a
\* generative text that was rejected
C18_Witness ==
    /\ Served /\ last.branch = "fallback"
    /\ last.clean = MsgThanksGreat
    /\ last.gen_invoked
    /\ last.response = GratitudeReply

\* the last request was handled after one with the same fingerprint that was
\* handled while it waited
Raced == last.endpoint = "chat" /\ last.raced /\ last.has_prev

C21_AsClaimed ==
    /\ \A p, q \in DOMAIN previous :
          (Strip(Lower(p[1])) # Strip(Lower(q[1])) \/ p[2] # q[2])
              => get_response_hash(p[1], p[2]) # get_response_hash(q[1], q[2])
    /\ (Served /\ last.branch = "cached") => last.norm_asked

\* C22 as written: a generative text that decide returns is, as returned,
\* longer than 50 and shorter than 1500 characters.
C22_AsClaimed ==
    (Served /\ last.branch = "generative")
        => /\ Len(last.response) > MinGenLen
           /\ Len(last.response) < MaxGenLen

\* C23: a request answered from the cache leaves the cache as it was, the
\* time and the text of the entry included, and the text it returns is that
\* of an entry stored less than 300 seconds before, however many requests
\* were answered from the entry in between.
C23_HitLeavesCache ==
    [][(handled' = handled + 1 /\ last'.branch = "cached")
          => /\ response_cache' = response_cache
             /\ LET h == get_response_hash(last'.clean, last'.user_id)
                IN  /\ h \in DOMAIN response_cache
                    /\ last'.response = response_cache[h].response
                    /\ last'.time - response_cache[h].timestamp < CACHE_DURATION
                    /\ last'.time - response_cache[h].timestamp >= 0]_vars

\* the second request in a row answered from an entry stored 299 s before
C23_Witness ==
    /\ Served /\ last.branch = "cached" /\ last.has_prev
    /\ last.prev_stored_at < last.prev_time
    /\ response_cache[KeyOfLast] =
           [response |-> last.response, timestamp |-> last.prev_stored_at]
    /\ last.time - last.prev_stored_at = CACHE_DURATION - 1

====
